---- MODULE Spec2Model ----
(***************************************************************************)
(* The playback/session command actor of riff (src/player/player.rs),      *)
(* together with the token cache (src/player/token_store.rs), the secret   *)
(* store record (src/app/credentials.rs) and the OAuth client              *)
(* (src/player/oauth2.rs) it drives.                                       *)
(*                                                                         *)
(* Option<T> is modelled as a sequence: <<>> is None, <<x>> is Some(x).    *)
(* Time is counted in units of 10 seconds.                                 *)
(***************************************************************************)
EXTENDS Integers, Sequences, FiniteSets, TLC

\* ---------------------------------------------------------------- bounds
MaxCmds == 2          \* commands ever enqueued
MaxTime == 1          \* clock ticks
MaxTokens == 1        \* tokens the provider issues
TokenLifetime == 2    \* expires_in of an issued token, in clock units
MaxEvents == 2        \* player events one relay receives
MaxParams == 2        \* parameters in the query of the callback request
MaxSessionCmds == 3   \* commands ever enqueued in a run of session commands
MaxCalls == 2         \* calls one task makes on the token cache

\* ------------------------------------------------------ program constants
MAX_VOLUME == 65535   \* VolumeCtrl::MAX_VOLUME (u16)
REFRESH_LEAD == 1     \* Duration::from_secs(10)
DEFAULT_WAIT == 12    \* Duration::from_secs(120)

None == <<>>
Some(x) == <<x>>

\* a port list whose third entry is 4070
KNOWN_AP_PORTS_4070_third == <<None, Some(80), Some(4070), Some(443)>>

\* const KNOWN_AP_PORTS
KNOWN_AP_PORTS == <<None, Some(80), Some(443), Some(4070)>>

\* ---------------------------------------------------------------- inputs
Tracks == {1}
Resumes == {TRUE}
Positions == {0}
Volumes == {50}       \* PlayerSetVolume argument, in hundredths

Cmd(t, track, resume, value) ==
    [type |-> t, track |-> track, resume |-> resume, value |-> value]

Plain(t) == Cmd(t, 0, FALSE, 0)

Command ==
    {Plain(t) : t \in {"RefreshToken", "Logout", "Restore", "InitLogin",
                       "CompleteLogin", "PlayerResume", "PlayerPause",
                       "PlayerStop", "ReloadSettings"}}
    \cup {Cmd("PlayerLoad", t, r, 0) : t \in Tracks, r \in Resumes}
    \cup {Cmd("PlayerPreload", t, FALSE, 0) : t \in Tracks}
    \cup {Cmd("PlayerSeek", 0, FALSE, p) : p \in Positions}
    \cup {Cmd("PlayerSetVolume", 0, FALSE, v) : v \in Volumes}

SpotifyPlayerSettings ==
    {[gapless |-> TRUE, ap_port |-> None],
     [gapless |-> FALSE, ap_port |-> Some(4070)]}

DefaultSettings == [gapless |-> TRUE, ap_port |-> None]

\* A credential record: the access and refresh token issued together
\* carry the same issue number.
Token(n, expiry) ==
    [access_token |-> n, refresh_token |-> n, token_expiry_time |-> expiry]

\* seconds in one unit of the clock
UNIT_SECS == 10

\* serde_json::to_vec(&self): the JSON object written to the secret
\* store; a SystemTime is written as seconds and nanoseconds since the
\* epoch, an absent expiry as null (the empty sequence)
to_vec(c) ==
    [access_token |-> c.access_token,
     refresh_token |-> c.refresh_token,
     token_expiry_time |->
         IF c.token_expiry_time = None THEN <<>>
         ELSE <<[secs_since_epoch |-> c.token_expiry_time[1] * UNIT_SECS,
                 nanos_since_epoch |-> 0]>>]

\* serde_json::from_slice(&item)
from_slice(b) ==
    [access_token |-> b.access_token,
     refresh_token |-> b.refresh_token,
     token_expiry_time |->
         IF b.token_expiry_time = <<>> THEN None
         ELSE Some(b.token_expiry_time[1].secs_since_epoch \div UNIT_SECS)]

\* What the secret store may hold when the program starts: the items that
\* match the application's attributes.
StoredAtStart == {None, Some(to_vec(Token(0, Some(0))))}

VARIABLES
    queue,          \* the unbounded command channel: <<[id, cmd], ...>>
    enqueued,       \* number of commands sent so far
    cur,            \* the command whose handler is in flight (Option)
    pc,             \* where the actor is: "idle" or a suspension point
    pending,        \* the handler's local value held across a suspension
    started,        \* id of the last command whose handler started
    finished,       \* id of the last command whose handler returned
    done,           \* [id, cmd, result] of the last finished handler
    calls,          \* delegate calls made for the current/last command
    ops,            \* operations on the player, the session and the OAuth
                    \* client made by the current/last command
    load_refused,   \* a PlayerLoad has been answered PlayerNotReady
    settings,       \* SpotifyPlayer.settings
    player,         \* SpotifyPlayer.player (Option)
    mixer,          \* SpotifyPlayer.mixer (Option of its volume)
    session,        \* SpotifyPlayer.session (Option of a session id)
    auth_challenge, \* SpotifyPlayer.auth_challenge (Option)
    sessions,       \* every Session ever created, indexed by id
    loops,          \* the refresh tasks spawned by initial_login
    relays,         \* players whose event channel a relay task drains
    players,        \* number of players ever built
    listeners,      \* number of callback listeners ever started
    storage,        \* TokenStore.storage
    keyring,        \* the application's entry in the secret store
    issued,         \* number of tokens the provider issued
    now,            \* SystemTime::now()
    input,          \* the arguments of a function applied on its own
    output,         \* its result (Option)
    tasks           \* two tasks calling the token cache: where each is

vars == <<queue, enqueued, cur, pc, pending, started, finished, done, calls,
          ops, load_refused, settings, player, mixer, session, auth_challenge, sessions,
          loops, relays, players, listeners, storage, keyring, issued, now,
          input, output, tasks>>

actorVars == <<settings, player, mixer, session, auth_challenge>>
worldVars == <<sessions, loops, relays, players, listeners>>
tokenVars == <<storage, keyring, issued>>
libVars == <<input, output, tasks>>
progVars == <<queue, enqueued, cur, pc, pending, started, finished, done,
              calls, ops, load_refused, actorVars, worldVars, tokenVars, now>>

NoCmd == Plain("")

NoInput == [fn |-> ""]

\* no task is inside a call of the token cache
NoTasks ==
    [get |-> [pc |-> "idle", val |-> None, overlapped |-> FALSE, calls |-> 0],
     wr |-> [pc |-> "idle", arg |-> None, calls |-> 0]]

\* the state after SpotifyPlayer::new and TokenStore::new
ProgInit ==
    /\ queue = <<>>
    /\ enqueued = 0
    /\ cur = None
    /\ pc = "idle"
    /\ pending = None
    /\ started = 0
    /\ finished = 0
    /\ done = [id |-> 0, cmd |-> NoCmd, result |-> "Ok"]
    /\ calls = <<>>
    /\ ops = <<>>
    /\ load_refused = FALSE
    /\ settings = DefaultSettings
    /\ player = None
    /\ mixer = None
    /\ session = None
    /\ auth_challenge = None
    /\ sessions = <<>>
    /\ loops = <<>>
    /\ relays = {}
    /\ players = 0
    /\ listeners = 0
    /\ storage = None
    /\ keyring \in StoredAtStart
    /\ issued = 0
    /\ now = 0

Init ==
    /\ ProgInit
    /\ input = NoInput
    /\ output = None
    /\ tasks = NoTasks


\* ------------------------------------------------------------ credentials
\* a token that counts as expired from its expiry time on
token_expired_from_expiry(c, t) ==
    IF c.token_expiry_time = None THEN TRUE ELSE t >= c.token_expiry_time[1]

\* Credentials::token_expired (src/app/credentials.rs)
token_expired(c, t) ==
    IF c.token_expiry_time = None THEN TRUE ELSE t > c.token_expiry_time[1]

\* Credentials::retrieve: the first matching item, or an error when the
\* service is unavailable or holds no item (returned as None).
retrieve(kr, avail) ==
    IF avail /\ kr # <<>> THEN Some(from_slice(Head(kr))) ELSE None

\* Collection::create_item(label, attributes, secret, replace, ..) on the
\* items that match the attributes: with replace the matching item is
\* overwritten, without it a further item is added
create_item(items, secret, replace) ==
    IF replace /\ items # <<>> THEN <<secret>> \o Tail(items)
    ELSE Append(items, secret)

\* a save that calls create_item without replace
save_no_replace(kr, c, avail) ==
    IF avail THEN create_item(kr, to_vec(c), FALSE) ELSE kr

\* Credentials::save: create_item(.., replace = true)
save(kr, c, avail) == IF avail THEN create_item(kr, to_vec(c), TRUE) ELSE kr

\* Credentials::logout: deletes the first matching item unless the
\* collection is locked.
logout(kr, mode) == IF mode = "open" /\ kr # <<>> THEN Tail(kr) ELSE kr

\* c.save() followed by Credentials::retrieve()
save_then_retrieve(kr, c, saved, avail) ==
    LET after == save(kr, c, saved)
    IN  [keyring |-> after, val |-> retrieve(after, avail)]

\* ------------------------------------------------------------ token cache
\* The token side of the state is passed around as ts = [storage, keyring,
\* issued]; every operation returns the new ts.
TS == [storage |-> storage, keyring |-> keyring, issued |-> issued]

\* Outcomes of the I/O one step may perform.
IO == [retrieve : BOOLEAN, save : BOOLEAN,
       logout : {"open", "locked", "unavailable"},
       exchange : {"ok", "no_refresh_token", "fail"},
       connect : BOOLEAN]

\* TokenStore::get_cached
TokenStore_get_cached(ts) == ts.storage

\* a get that asks the secret store even when the cache holds a value
TokenStore_get_uncached(ts, io) ==
    LET r == retrieve(ts.keyring, io.retrieve)
    IN  [ts |-> [ts EXCEPT !.storage = r], val |-> r, retrieves |-> 1]

\* TokenStore::get; retrieves counts the calls of Credentials::retrieve
TokenStore_get(ts, io) ==
    IF ts.storage # None
    THEN [ts |-> ts, val |-> ts.storage, retrieves |-> 0]
    ELSE LET r == retrieve(ts.keyring, io.retrieve)
         IN  IF r # None
             THEN [ts |-> [ts EXCEPT !.storage = r], val |-> r,
                   retrieves |-> 1]
             ELSE [ts |-> ts, val |-> None, retrieves |-> 1]

\* a set that updates the cache only when the save succeeded
TokenStore_set_if_saved(ts, c, io) ==
    IF io.save
    THEN [ts EXCEPT !.keyring = Some(to_vec(c)), !.storage = Some(c)]
    ELSE ts

\* TokenStore::set
TokenStore_set(ts, c, io) ==
    [ts EXCEPT !.keyring = save(ts.keyring, c, io.save), !.storage = Some(c)]

\* TokenStore::clear
TokenStore_clear(ts, io) ==
    [ts EXCEPT !.keyring = logout(ts.keyring, io.logout), !.storage = None]

\* clear() followed, with no set in between, by get()
clear_then_get(ts, io) == TokenStore_get(TokenStore_clear(ts, io), io)

\* ----------------------------------------------------------- OAuth client
\* The token built from a successful token-endpoint response.
new_token(ts, t) == Token(ts.issued + 1, Some(t + TokenLifetime))

\* SpotOauthClient::refresh_token; exchanges counts the requests made to
\* the token endpoint
refresh_token(ts, old, io, t) ==
    IF io.exchange = "fail"
    THEN [res |-> "NoRefreshToken", ts |-> TokenStore_clear(ts, io),
          val |-> None, exchanges |-> 1]
    ELSE IF io.exchange = "no_refresh_token"
    THEN [res |-> "NoRefreshToken", ts |-> ts, val |-> None, exchanges |-> 1]
    ELSE LET n == new_token(ts, t)
         IN  [res |-> "Ok",
              ts |-> TokenStore_set([ts EXCEPT !.issued = @ + 1], n, io),
              val |-> Some(n), exchanges |-> 1]

\* a get_valid_token that refreshes whatever the expiry
get_valid_token_always_refreshes(ts, io, t) ==
    LET g == TokenStore_get(ts, io)
    IN  IF g.val = None
        THEN [res |-> "LoggedOut", ts |-> g.ts, val |-> None, exchanges |-> 0]
        ELSE refresh_token(g.ts, g.val[1], io, t)

\* SpotOauthClient::get_valid_token
get_valid_token(ts, io, t) ==
    LET g == TokenStore_get(ts, io)
    IN  IF g.val = None
        THEN [res |-> "LoggedOut", ts |-> g.ts, val |-> None, exchanges |-> 0]
        ELSE IF token_expired(g.val[1], t)
             THEN refresh_token(g.ts, g.val[1], io, t)
             ELSE [res |-> "Ok", ts |-> g.ts, val |-> g.val, exchanges |-> 0]

\* The code exchange that ends an interactive login: on success the new
\* token is stored through the token cache.
exchange_authcode(ts, challenge, io, t) ==
    IF io.exchange = "fail"
    THEN [res |-> "ExchangeCode", ts |-> ts, val |-> None]
    ELSE IF io.exchange = "no_refresh_token"
    THEN [res |-> "NoRefreshToken", ts |-> ts, val |-> None]
    ELSE LET n == new_token(ts, t)
         IN  [res |-> "Ok",
              ts |-> TokenStore_set([ts EXCEPT !.issued = @ + 1], n, io),
              val |-> Some(n)]

\* ------------------------------------------------- the callback request
\* A request line is the sequence of its whitespace-separated words; a
\* word is the text before its first "?" and, if it has a "?", the query
\* after it. A query is a sequence of key=value pairs whose values are
\* sequences of characters as sent.
Word(text, query) == [text |-> text, query |-> query]

Param(key, value) == [key |-> key, value |-> value]

\* url::form_urlencoded::parse on one value: "+" stands for a space
form_urldecode(raw) ==
    [i \in 1..Len(raw) |-> IF raw[i] = "+" THEN " " ELSE raw[i]]

\* HashMap::remove(key) on the collected pairs: a later pair with the same
\* key has replaced an earlier one
remove(query, key) ==
    LET at == {i \in 1..Len(query) : query[i].key = key}
    IN  IF at = {} THEN None
        ELSE Some(form_urldecode(
                 query[CHOOSE i \in at : \A j \in at : j <= i].value))

OAuthErr(e) == [res |-> e, csrf_token |-> <<>>, code |-> <<>>]

\* a parse_query that looks for the code first
parse_query_code_first(request_line) ==
    IF Len(request_line) < 2 \/ request_line[2].query = None
    THEN OAuthErr("AuthCodeListenerParse")
    ELSE LET query == request_line[2].query[1]
         IN  IF remove(query, "code") = None
             THEN OAuthErr("AuthCodeNotFound")
             ELSE IF remove(query, "state") = None
             THEN OAuthErr("CsrfTokenNotFound")
             ELSE [res |-> "Ok", csrf_token |-> remove(query, "state")[1],
                   code |-> remove(query, "code")[1]]

\* parse_query
parse_query(request_line) ==
    IF Len(request_line) < 2 \/ request_line[2].query = None
    THEN OAuthErr("AuthCodeListenerParse")
    ELSE LET query == request_line[2].query[1]
         IN  IF remove(query, "state") = None
             THEN OAuthErr("CsrfTokenNotFound")
             ELSE IF remove(query, "code") = None
             THEN OAuthErr("AuthCodeNotFound")
             ELSE [res |-> "Ok", csrf_token |-> remove(query, "state")[1],
                   code |-> remove(query, "code")[1]]

\* SpotOauthClient::get_token from the point where the request line of
\* the callback has been read; csrf_token is the secret generated with the
\* authorization URL, code is the code sent to the token endpoint
get_token(ts, csrf_token, request_line, io, t) ==
    LET res == parse_query(request_line)
    IN  IF res.res # "Ok"
        THEN [res |-> res.res, ts |-> ts, val |-> None, exchanges |-> 0,
              code |-> <<>>]
        ELSE IF csrf_token # res.csrf_token
        THEN [res |-> "InvalidState", ts |-> ts, val |-> None,
              exchanges |-> 0, code |-> <<>>]
        ELSE IF io.exchange = "fail"
        THEN [res |-> "ExchangeCode", ts |-> ts, val |-> None,
              exchanges |-> 1, code |-> res.code]
        ELSE IF io.exchange = "no_refresh_token"
        THEN [res |-> "NoRefreshToken", ts |-> ts, val |-> None,
              exchanges |-> 1, code |-> res.code]
        ELSE LET n == new_token(ts, t)
             IN  [res |-> "Ok",
                  ts |-> TokenStore_set([ts EXCEPT !.issued = @ + 1], n, io),
                  val |-> Some(n), exchanges |-> 1, code |-> res.code]

\* ------------------------------------------------------ the redirect URI
\* A redirect URI is given by whether Url::parse accepts it, its scheme,
\* its host with the addresses the host stands for (one for an IP
\* literal, the resolver's answer for a domain) and the port written in
\* it, if any.
IpV4(a, b, c, d) == [v |-> 4, a |-> <<a, b, c, d>>]

IpV6(segments) == [v |-> 6, a |-> segments]

\* IpAddr::is_loopback: 127.0.0.0/8 or ::1
is_loopback(ip) ==
    IF ip.v = 4 THEN ip.a[1] = 127 ELSE ip.a = <<0, 0, 0, 0, 0, 0, 0, 1>>

\* Url::port: the port written in the URI unless it is the default of the
\* scheme
url_port(url) ==
    IF url.port = Some(IF url.scheme = "http" THEN 80 ELSE 443) THEN None
    ELSE url.port

SocketAddr(ip, p) == [ip |-> ip, port |-> p]

\* a get_socket_address that accepts any address
get_socket_address_any_host(url) ==
    IF ~url.parses \/ url.scheme # "http" \/ url_port(url) = None
          \/ url.host.addrs = <<>>
    THEN None
    ELSE Some(SocketAddr(url.host.addrs[Len(url.host.addrs)], url_port(url)[1]))

\* get_socket_address
get_socket_address(url) ==
    IF ~url.parses \/ url.scheme # "http" \/ url_port(url) = None THEN None
    ELSE LET addrs == url.host.addrs
             socket_addr ==
                 IF addrs = <<>> THEN None
                 ELSE Some(SocketAddr(addrs[Len(addrs)], url_port(url)[1]))
         IN  IF socket_addr # None /\ is_loopback(socket_addr[1].ip)
             THEN socket_addr
             ELSE None

\* The provider issues at most MaxTokens tokens; an outcome of an operation
\* that does not run (the save after a failed exchange, the logout after a
\* successful one) is fixed.
Allowed(io) ==
    /\ io.exchange = "ok" => issued < MaxTokens
    /\ io.exchange # "ok" => io.save
    /\ io.exchange # "fail" => io.logout = "open"

\* the outcomes that matter to get_valid_token and refresh_token
IOToken == {io \in IO : io.connect /\ Allowed(io)}

\* the outcomes that matter to the code exchange
IOExchange == {io \in IO : io.connect /\ io.retrieve /\ io.logout = "open"
                            /\ Allowed(io)}

\* the outcomes that matter to a refresh followed by a reconnect
IORefresh == {io \in IO : io.retrieve /\ Allowed(io)}

SetTS(ts) ==
    /\ storage' = ts.storage
    /\ keyring' = ts.keyring
    /\ issued' = ts.issued

\* ------------------------------------------------------- session creation
\* create_session_with_port: a failed connect is reported as LoginFailed.
create_session_with_port(port, connected) ==
    IF connected THEN [res |-> "Ok", port |-> port]
    ELSE [res |-> "LoginFailed", port |-> port]

\* a loop that goes on to the next port after any error
retryable_any(res) == res # "Ok"

\* `Err(SpotifyError::TechnicalError) => continue`
retryable(res) == res = "TechnicalError"

\* a loop that tries every port and returns the result of the last one
probe_exhaust(i, results) ==
    [res |-> results[Len(KNOWN_AP_PORTS)].res,
     port |-> results[Len(KNOWN_AP_PORTS)].port,
     tried |-> KNOWN_AP_PORTS]

RECURSIVE probe(_, _)
\* the loop of create_session over KNOWN_AP_PORTS, from attempt i on;
\* results[i] is what create_session_with_port returns for the i-th port,
\* tried is the list of ports it was called with
probe(i, results) ==
    IF i > Len(KNOWN_AP_PORTS)
    THEN [res |-> "TechnicalError", port |-> None, tried |-> KNOWN_AP_PORTS]
    ELSE IF retryable(results[i].res) THEN probe(i + 1, results)
         ELSE [res |-> results[i].res, port |-> results[i].port,
               tried |-> SubSeq(KNOWN_AP_PORTS, 1, i)]

\* create_session
create_session(ap_port, results) ==
    IF ap_port # None
    THEN [res |-> results[1].res, port |-> results[1].port,
          tried |-> <<ap_port>>]
    ELSE probe(1, results)

\* the port of the i-th call of create_session_with_port
PortAt(ap_port, i) == IF ap_port # None THEN ap_port ELSE KNOWN_AP_PORTS[i]

\* what create_session_with_port returns on each call, given whether the
\* connection of that call is established
Attempts(ap_port, connects) ==
    [i \in 1..Len(KNOWN_AP_PORTS) |->
        create_session_with_port(PortAt(ap_port, i), connects[i])]

Connects == [1..Len(KNOWN_AP_PORTS) -> BOOLEAN]


\* ------------------------------------------------------- delegate, player
Call(name, err, num) == [call |-> name, err |-> err, num |-> num]

\* handle_and_notify with the Err arm dropped
handle_and_notify_silent(result) == <<>>

\* SpotifyPlayer::handle_and_notify: the delegate calls made for a result
handle_and_notify(result) ==
    IF result = "Ok" THEN <<>> ELSE <<Call("report_error", result, 0)>>

\* get_player that never finds the player
get_player_never(p) == "PlayerNotReady"

\* SpotifyPlayer::get_player / get_player_mut
get_player(p) == IF p = None THEN "PlayerNotReady" ELSE "Ok"

\* a volume passed on in hundredths, without scaling
scaled_volume_unscaled(v) == v

\* (VolumeCtrl::MAX_VOLUME as f64 * volume) as u16, volume in hundredths
scaled_volume(v) ==
    LET x == (MAX_VOLUME * v) \div 100
    IN  IF x < 0 THEN 0 ELSE IF x > 65535 THEN 65535 ELSE x

\* the PlayerSetVolume arm: the volume is applied to the mixer, if any
set_volume(m, v) == IF m # None THEN Some(scaled_volume(v)) ELSE m

\* a create_player that makes a new mixer for every player
mixer_after_create_fresh(m) == Some(MAX_VOLUME)

\* SpotifyPlayer::create_player: the mixer is created on first use
mixer_after_create(m) == IF m = None THEN Some(MAX_VOLUME) ELSE m

\* the player built by create_player for session sid under settings st
built_player(sid, st) == [id |-> players + 1, session |-> sid, settings |-> st]

\* a replace that leaves the field empty
replace_leaves_none(old, new) == None

\* a replace that leaves the old value in place
replace_keeps_old(old, new) == old

\* Option::replace: the value held afterwards
replace(old, new) == Some(new)

\* a player event; position_ms is 0 for the kinds that carry none
PlayerEvent(kind, position_ms) == [kind |-> kind, position_ms |-> position_ms]

\* the arms of the match in player_setup_delegate
delegate_calls(event) ==
    IF event.kind = "EndOfTrack"
    THEN <<Call("end_of_track_reached", "", 0)>>
    ELSE IF event.kind = "Playing"
    THEN <<Call("notify_playback_state", "", event.position_ms)>>
    ELSE IF event.kind = "TimeToPreloadNextTrack"
    THEN <<Call("preload_next_track", "", 0)>>
    ELSE <<>>

\* a relay that handles the events it holds last first
player_setup_delegate_reversed(events) ==
    IF events = <<>> THEN <<>>
    ELSE delegate_calls(events[Len(events)])
         \o (IF Len(events) > 1 THEN delegate_calls(events[1]) ELSE <<>>)

RECURSIVE player_setup_delegate(_)
\* player_setup_delegate: the delegate calls made for the events received
\* until the channel closes
player_setup_delegate(events) ==
    IF events = <<>> THEN <<>>
    ELSE delegate_calls(Head(events)) \o player_setup_delegate(Tail(events))

\* dropping a player closes its event channel, which ends its relay
relays_without(p) == IF p = None THEN relays ELSE relays \ {p[1].id}

\* a rebuild that spawns no relay for the new player
relays_after_build_unsubscribed(old, id) == relays_without(old)

\* spawn_local(player_setup_delegate(new_player.get_player_event_channel(),
\* ..)) followed by self.player.replace(new_player): player id has a relay,
\* and the channel of the dropped player closes, which ends its relay
relays_after_build(old, id) == relays_without(old) \cup {id}

\* ------------------------------------------------------- the command loop
\* a loop that takes the next command while a handler is suspended
CanStartAlways == TRUE

\* SpotifyPlayer::start: the fold takes the next command only after the
\* future of the previous one has completed.
CanStart == pc = "idle"

\* the receiver yields the commands in the order they were sent
NextCommand(q) == Head(q)

Taken == IF queue = <<>> THEN {} ELSE {NextCommand(queue)}

Begin(c) ==
    /\ CanStart
    /\ queue # <<>>
    /\ queue' = Tail(queue)
    /\ started' = c.id
    /\ UNCHANGED <<enqueued, libVars>>

\* the handler returns `result`, having made delegate calls cs and player
\* operations os; handle_and_notify reports an error
Finish(c, result, cs, os) ==
    /\ calls' = cs \o handle_and_notify(result)
    /\ ops' = os
    /\ load_refused' = (load_refused \/ (c.cmd.type = "PlayerLoad"
                                          /\ result = "PlayerNotReady"))
    /\ done' = [id |-> c.id, cmd |-> c.cmd, result |-> result]
    /\ finished' = c.id
    /\ cur' = None
    /\ pc' = "idle"
    /\ pending' = None

\* the handler awaits at suspension point `at`, holding `local`
Suspend(c, at, local) ==
    /\ cur' = Some(c)
    /\ pc' = at
    /\ pending' = local
    /\ calls' = <<>>
    /\ ops' = <<>>
    /\ UNCHANGED <<finished, done, load_refused>>

\* the handler goes on to its next suspension point `at`, having made
\* operation o
Continue(at, local, o) ==
    /\ pc' = at
    /\ pending' = local
    /\ ops' = Append(ops, o)
    /\ UNCHANGED <<cur, finished, done, calls, load_refused>>

Resume(at) ==
    /\ pc = at
    /\ cur # None
    /\ UNCHANGED <<queue, enqueued, started, libVars>>

\* a producer sends a command, unless n have been sent
EnqueueUpTo(c, n) ==
    /\ enqueued < n
    /\ enqueued' = enqueued + 1
    /\ queue' = Append(queue, [id |-> enqueued + 1, cmd |-> c])
    /\ UNCHANGED <<cur, pc, pending, started, finished, done, calls, ops,
                   load_refused,
                   actorVars, worldVars, tokenVars, now, libVars>>

Enqueue(c) == EnqueueUpTo(c, MaxCmds)

Send == \E c \in Command : Enqueue(c)

\* ---------------------------------------------------- transport commands
\* an operation `name` on player or session `on`, made for command k
Op(name, on, k) == [op |-> name, on |-> on, cmd |-> k]

HandleTransport(t) ==
    \E c \in Taken :
        /\ c.cmd.type = t
        /\ Begin(c)
        /\ IF get_player(player) = "Ok"
           THEN Finish(c, "Ok", <<>>, <<Op(t, player[1].id, c.cmd)>>)
           ELSE Finish(c, get_player(player), <<>>, <<>>)
        /\ UNCHANGED <<actorVars, worldVars, tokenVars, now>>

HandlePlayerResume == HandleTransport("PlayerResume")
HandlePlayerPause == HandleTransport("PlayerPause")
HandlePlayerStop == HandleTransport("PlayerStop")
HandlePlayerSeek == HandleTransport("PlayerSeek")
HandlePlayerLoad == HandleTransport("PlayerLoad")
HandlePlayerPreload == HandleTransport("PlayerPreload")


\* ------------------------------------------------------- PlayerSetVolume
HandlePlayerSetVolume ==
    \E c \in Taken :
        /\ c.cmd.type = "PlayerSetVolume"
        /\ Begin(c)
        /\ mixer' = set_volume(mixer, c.cmd.value)
        /\ Finish(c, "Ok", <<>>, <<>>)
        /\ UNCHANGED <<settings, player, session, auth_challenge, worldVars,
                       tokenVars, now>>

\* ---------------------------------------------------------------- Logout
\* a Logout that forgets to drop the player
LogoutPlayerKept(p) == p

\* what self.player holds after `let _ = self.player.take()`
LogoutPlayer(p) == None

\* Session::shutdown
shutdown(ss, sid) == [ss EXCEPT ![sid].status = "shutdown"]

HandleLogout ==
    \E c \in Taken :
        /\ c.cmd.type = "Logout"
        /\ Begin(c)
        /\ IF session = None
           THEN /\ Finish(c, "PlayerNotReady", <<>>, <<>>)
                /\ UNCHANGED <<actorVars, worldVars>>
           ELSE /\ sessions' = shutdown(sessions, session[1])
                /\ session' = None
                /\ player' = LogoutPlayer(player)
                /\ relays' = relays_without(player)
                /\ Finish(c, "Ok", <<>>, <<Op("shutdown", session[1], c.cmd)>>)
                /\ UNCHANGED <<settings, mixer, auth_challenge, loops,
                               players, listeners>>
        /\ UNCHANGED <<tokenVars, now>>

\* -------------------------------------------------------- ReloadSettings
\* what self.session holds after the handler has built the new player
\* from `self.session.take()`
ReloadSession(s) == None

HandleReloadSettings ==
    \E c \in Taken, st \in SpotifyPlayerSettings :
        /\ c.cmd.type = "ReloadSettings"
        /\ Begin(c)
        /\ settings' = st
        /\ IF session = None
           THEN /\ Finish(c, "PlayerNotReady", <<>>, <<>>)
                /\ UNCHANGED <<player, mixer, session, worldVars>>
           ELSE /\ session' = ReloadSession(session)
                /\ player' = replace(player, built_player(session[1], st))
                /\ players' = players + 1
                /\ mixer' = mixer_after_create(mixer)
                /\ relays' = relays_after_build(player, players + 1)
                /\ Finish(c, "Ok", <<>>, <<>>)
                /\ UNCHANGED <<sessions, loops, listeners>>
        /\ UNCHANGED <<auth_challenge, tokenVars, now>>

\* --------------------------------------------------------- initial_login
\* a refresh task as spawned: about to call refresh_token_at_expiry
\* spun: its last iteration ended without suspending
NewLoop == [pc |-> "start", old_token |-> None, wake |-> 0, spun |-> FALSE]

\* a connect that leaves the session with the credentials it had
connect_keeps_token(ss, sid, tok, ok) == ss

\* Session::connect on an existing session
connect(ss, sid, tok, ok) ==
    IF ok /\ ss[sid].status = "connected"
    THEN [ss EXCEPT ![sid].token = tok] ELSE ss

\* an initial_login that drops the session it had when the new one fails
session_after_login_dropped(old, res, sid) ==
    IF res = "Ok" THEN replace(old, sid) ELSE None

\* what self.session holds when initial_login returns: the `?` after
\* create_session returns before `self.session.replace(new_session)`
session_after_login(old, res, sid) ==
    IF res = "Ok" THEN replace(old, sid) ELSE old

\* create_session has completed; the rest of initial_login runs without
\* suspending
InitialLoginCreated ==
    /\ Resume("create_session")
    /\ \E connects \in Connects :
        LET c == cur[1]
            r == create_session(settings.ap_port,
                                Attempts(settings.ap_port, connects))
            sid == Len(sessions) + 1
        IN  IF r.res # "Ok"
            THEN /\ Finish(c, r.res, <<>>,
                           Append(ops, Op("create_session", 0, c.cmd)))
                 /\ session' = session_after_login(session, r.res, sid)
                 /\ UNCHANGED <<settings, player, mixer, auth_challenge,
                                worldVars>>
            ELSE /\ sessions' = Append(sessions,
                        [status |-> "connected", port |-> r.port,
                         token |-> pending[1].access_token])
                 /\ loops' = Append(loops, NewLoop)
                 /\ player' = replace(player, built_player(sid, settings))
                 /\ players' = players + 1
                 /\ mixer' = mixer_after_create(mixer)
                 /\ relays' = relays_after_build(player, players + 1)
                 /\ session' = session_after_login(session, r.res, sid)
                 /\ Finish(c, "Ok",
                           <<Call("token_login_successful", "", 0)>>,
                           Append(ops, Op("create_session", sid, c.cmd)))
                 /\ UNCHANGED <<settings, auth_challenge, listeners>>
    /\ UNCHANGED <<tokenVars, now>>

\* --------------------------------------------------------------- Restore
\* a Restore that reports every token error as LoginFailed
restore_error_flat(e) == "LoginFailed"

\* the map_err of the Restore arm
restore_error(e) == IF e = "LoggedOut" THEN "LoggedOut" ELSE "LoginFailed"

RestoreBegin ==
    \E c \in Taken :
        /\ c.cmd.type = "Restore"
        /\ Begin(c)
        /\ Suspend(c, "restore_token", None)
        /\ UNCHANGED <<actorVars, worldVars, tokenVars, now>>

RestoreGotToken ==
    /\ Resume("restore_token")
    /\ \E io \in IOToken :
        /\ LET r == get_valid_token(TS, io, now)
           IN  /\ SetTS(r.ts)
               /\ IF r.res = "Ok"
                  THEN Continue("create_session", r.val,
                                Op("get_valid_token", 0, cur[1].cmd))
                  ELSE Finish(cur[1], restore_error(r.res), <<>>,
                              Append(ops, Op("get_valid_token", 0,
                                             cur[1].cmd)))
    /\ UNCHANGED <<actorVars, worldVars, now>>


\* ---------------------------------------------------------- RefreshToken
RefreshTokenBegin ==
    \E c \in Taken :
        /\ c.cmd.type = "RefreshToken"
        /\ Begin(c)
        /\ IF session = None
           THEN Finish(c, "PlayerNotReady", <<>>, <<>>)
           ELSE Suspend(c, "refresh_token", None)
        /\ UNCHANGED <<actorVars, worldVars, tokenVars, now>>

RefreshTokenGotToken ==
    /\ Resume("refresh_token")
    /\ \E io \in IOToken :
        /\ LET r == get_valid_token(TS, io, now)
           IN  /\ SetTS(r.ts)
               /\ IF r.res = "Ok"
                  THEN Continue("refresh_connect", r.val,
                                Op("get_valid_token", 0, cur[1].cmd))
                  ELSE Finish(cur[1], "LoginFailed", <<>>,
                              Append(ops, Op("get_valid_token", 0,
                                             cur[1].cmd)))
    /\ UNCHANGED <<actorVars, worldVars, now>>

\* `session` was borrowed from self.session before the suspension; nothing
\* else runs on the actor meanwhile, so it is still self.session
RefreshTokenConnected ==
    /\ Resume("refresh_connect")
    /\ \E ok \in BOOLEAN :
        /\ sessions' = connect(sessions, session[1],
                               pending[1].access_token, ok)
        /\ IF ok
           THEN Finish(cur[1], "Ok", <<Call("refresh_successful", "", 0)>>,
                       Append(ops, Op("connect", session[1], cur[1].cmd)))
           ELSE Finish(cur[1], "LoginFailed", <<>>,
                       Append(ops, Op("connect", session[1], cur[1].cmd)))
    /\ UNCHANGED <<actorVars, loops, relays, players, listeners, tokenVars,
                   now>>

\* ------------------------------------------------------------- InitLogin
\* an InitLogin that starts a listener every time
NeedsListenerAlways(ch) == TRUE

\* whether the handler has to start a listener
NeedsListener(ch) == ch = None

\* the challenge a freshly bound listener belongs to
AuthcodeChallenge(n) == [auth_url |-> n, received |-> FALSE]

\* a None arm that stores a challenge although no listener was bound
ChallengeAfterSpawnAlways(ch, bound, n) == Some(AuthcodeChallenge(n))

\* what self.auth_challenge holds after the None arm: the `?` returns
\* before the assignment when the listener could not be started
ChallengeAfterSpawn(ch, bound, n) ==
    IF bound THEN Some(AuthcodeChallenge(n)) ELSE ch

InitLoginBegin ==
    \E c \in Taken :
        /\ c.cmd.type = "InitLogin"
        /\ Begin(c)
        /\ IF NeedsListener(auth_challenge)
           THEN Suspend(c, "spawn_listener", None)
           ELSE Finish(c, "Ok",
                       <<Call("login_challenge_started", "",
                              auth_challenge[1].auth_url)>>, <<>>)
        /\ UNCHANGED <<actorVars, worldVars, tokenVars, now>>

\* spawn_authcode_listener has bound the listener, or failed to
InitLoginSpawned ==
    /\ Resume("spawn_listener")
    /\ \E bound \in BOOLEAN :
        /\ auth_challenge' = ChallengeAfterSpawn(auth_challenge, bound,
                                                 listeners + 1)
        /\ IF bound
           THEN /\ listeners' = listeners + 1
                /\ Finish(cur[1], "Ok",
                          <<Call("login_challenge_started", "",
                                 listeners + 1)>>,
                          <<Op("spawn_authcode_listener", listeners + 1,
                               cur[1].cmd)>>)
           ELSE /\ Finish(cur[1], "LoginFailed", <<>>,
                          <<Op("spawn_authcode_listener", 0, cur[1].cmd)>>)
                /\ UNCHANGED listeners
    /\ UNCHANGED <<settings, player, mixer, session, sessions, loops, relays,
                   players, tokenVars, now>>

\* the browser is redirected to the listener, whose callback sends
\* CompleteLogin
ListenerCallback ==
    /\ auth_challenge # None
    /\ ~auth_challenge[1].received
    /\ enqueued < MaxCmds
    /\ auth_challenge' = Some([auth_challenge[1] EXCEPT !.received = TRUE])
    /\ enqueued' = enqueued + 1
    /\ queue' = Append(queue, [id |-> enqueued + 1,
                               cmd |-> Plain("CompleteLogin")])
    /\ UNCHANGED <<cur, pc, pending, started, finished, done, calls, ops,
                   load_refused,
                   settings, player, mixer, session, worldVars, tokenVars,
                   now, libVars>>

\* --------------------------------------------------------- CompleteLogin
\* a CompleteLogin that reads the challenge without taking it
TakeChallengeLeaves(ch) == ch

\* what self.auth_challenge holds after `self.auth_challenge.take()`
TakeChallenge(ch) == None

CompleteLoginBegin ==
    \E c \in Taken :
        /\ c.cmd.type = "CompleteLogin"
        /\ Begin(c)
        /\ auth_challenge' = TakeChallenge(auth_challenge)
        /\ IF auth_challenge = None
           THEN Finish(c, "LoginFailed", <<>>, <<>>)
           ELSE Suspend(c, "exchange_authcode", auth_challenge)
        /\ UNCHANGED <<settings, player, mixer, session, worldVars,
                       tokenVars, now>>

CompleteLoginExchanged ==
    /\ Resume("exchange_authcode")
    /\ \E io \in IOExchange :
        /\ LET r == exchange_authcode(TS, pending[1], io, now)
           IN  /\ SetTS(r.ts)
               /\ IF r.res = "Ok"
                  THEN Continue("create_session", r.val,
                                Op("exchange_authcode", 0, cur[1].cmd))
                  ELSE Finish(cur[1], "LoginFailed", <<>>,
                              Append(ops, Op("exchange_authcode", 0,
                                             cur[1].cmd)))
    /\ UNCHANGED <<actorVars, worldVars, now>>

\* ------------------------------------------------------ background tasks
Tick ==
    /\ now < MaxTime
    /\ now' = now + 1
    /\ UNCHANGED <<queue, enqueued, cur, pc, pending, started, finished,
                   done, calls, ops, load_refused, actorVars, worldVars,
                   tokenVars, libVars>>

\* refresh_token_at_expiry: how long the task sleeps for token c
sleep_for(c, t) ==
    LET duration == IF c.token_expiry_time # None
                       /\ c.token_expiry_time[1] >= t
                    THEN c.token_expiry_time[1] - t
                    ELSE DEFAULT_WAIT
    IN  IF duration > REFRESH_LEAD THEN duration - REFRESH_LEAD ELSE 0

\* the refresh task of session sid reads the cached token and goes to
\* sleep
LoopArm(sid) ==
    /\ loops[sid].pc = "start"
    /\ storage # None
    /\ loops' = [loops EXCEPT ![sid] =
                    [pc |-> "sleeping", old_token |-> storage,
                     wake |-> now + sleep_for(storage[1], now),
                     spun |-> FALSE]]
    /\ UNCHANGED <<queue, enqueued, cur, pc, pending, started, finished,
                   done, calls, ops, load_refused, actorVars, sessions,
                   relays, players, listeners, tokenVars, now, libVars>>

\* the refresh task of session sid finds the cache empty:
\* refresh_token_at_expiry returns Err(NoRefreshToken) at once and the
\* `if let Ok(..)` of the loop falls through to the next iteration
LoopFail(sid) ==
    /\ loops[sid].pc = "start"
    /\ storage = None
    /\ loops' = [loops EXCEPT ![sid] = [NewLoop EXCEPT !.spun = TRUE]]
    /\ UNCHANGED <<queue, enqueued, cur, pc, pending, started, finished,
                   done, calls, ops, load_refused, actorVars, sessions,
                   relays, players, listeners, tokenVars, now, libVars>>

\* the sleep is over: refresh_token(old_token) sends its request to the
\* token endpoint
LoopWake(sid) ==
    /\ loops[sid].pc = "sleeping"
    /\ now >= loops[sid].wake
    /\ loops' = [loops EXCEPT ![sid].pc = "exchanging"]
    /\ UNCHANGED <<queue, enqueued, cur, pc, pending, started, finished,
                   done, calls, ops, load_refused, actorVars, sessions,
                   relays, players, listeners, tokenVars, now, libVars>>

\* the token endpoint has answered: store or clear the token, and
\* reconnect the session on success
LoopExchanged(sid) ==
    /\ loops[sid].pc = "exchanging"
    /\ \E io \in IORefresh :
        /\ LET r == refresh_token(TS, loops[sid].old_token[1], io, now)
           IN  /\ SetTS(r.ts)
               /\ sessions' = IF r.res = "Ok"
                              THEN connect(sessions, sid,
                                           r.val[1].access_token, io.connect)
                              ELSE sessions
    /\ loops' = [loops EXCEPT ![sid] = NewLoop]
    /\ UNCHANGED <<queue, enqueued, cur, pc, pending, started, finished,
                   done, calls, ops, load_refused, actorVars, relays,
                   players, listeners, now, libVars>>

RefreshLoopArm == \E sid \in 1..Len(loops) : LoopArm(sid)
RefreshLoopFail == \E sid \in 1..Len(loops) : LoopFail(sid)
RefreshLoopWake == \E sid \in 1..Len(loops) : LoopWake(sid)
RefreshLoopExchanged == \E sid \in 1..Len(loops) : LoopExchanged(sid)

\* ----------------------------------------------------------- specification
ActorStep ==
    \/ HandlePlayerSetVolume
    \/ HandlePlayerResume
    \/ HandlePlayerPause
    \/ HandlePlayerStop
    \/ HandlePlayerSeek
    \/ HandlePlayerLoad
    \/ HandlePlayerPreload
    \/ HandleLogout
    \/ HandleReloadSettings
    \/ RefreshTokenBegin
    \/ RefreshTokenGotToken
    \/ RefreshTokenConnected
    \/ RestoreBegin
    \/ RestoreGotToken
    \/ InitLoginBegin
    \/ InitLoginSpawned
    \/ CompleteLoginBegin
    \/ CompleteLoginExchanged
    \/ InitialLoginCreated

Next ==
    \/ Send
    \/ ListenerCallback
    \/ Tick
    \/ RefreshLoopArm
    \/ RefreshLoopFail
    \/ RefreshLoopWake
    \/ RefreshLoopExchanged
    \/ ActorStep

Spec == Init /\ [][Next]_vars

\* The actor task is polled whenever a command is ready, and an awaited
\* I/O operation completes, with a result or an error.
FairSpec == Spec /\ WF_vars(ActorStep)

\* ------------------------------------------- runs of session commands
\* The producers send only the commands that create, rebuild or drop the
\* session and the player, and PlayerSetVolume, and the run is short
\* enough for the clock to stay at its first value; such runs are followed
\* for one command more than the runs of Spec.
SessionCommand ==
    {c \in Command : c.type \in {"Restore", "Logout", "ReloadSettings",
                                  "PlayerSetVolume"}}

SessionSend == \E c \in SessionCommand : EnqueueUpTo(c, MaxSessionCmds)

SessionNext ==
    \/ SessionSend
    \/ RefreshLoopArm
    \/ RefreshLoopFail
    \/ RefreshLoopWake
    \/ RefreshLoopExchanged
    \/ HandlePlayerSetVolume
    \/ HandleLogout
    \/ HandleReloadSettings
    \/ RestoreBegin
    \/ RestoreGotToken
    \/ InitialLoginCreated

SessionSpec == Init /\ [][SessionNext]_vars

\* ------------------------------------------- the functions on their own
\* Each function below is applied once to arguments drawn from a bounded
\* set; the program state stays as constructed.
StubResults == {"Ok", "TechnicalError", "LoginFailed"}

\* the results of a create_session_with_port that is replaced by a stub
\* returning stub[i] on its i-th call
Stubbed(ap_port, stub) ==
    [i \in 1..Len(KNOWN_AP_PORTS) |->
        [res |-> stub[i], port |-> PortAt(ap_port, i)]]

LibTimes == 0..MaxTime

LibTokens ==
    {Token(0, None)} \cup {Token(0, Some(e)) : e \in 0..TokenLifetime}

LibStores ==
    [storage : {None} \cup {Some(c) : c \in LibTokens},
     keyring : {None, Some(to_vec(Token(0, Some(0)))),
                Some(to_vec(Token(0, Some(MaxTime))))},
     issued : {1}]

NewTokens == {Token(1, Some(TokenLifetime))}

LibIO == {io \in IO : io.connect}

\* records passed to save()
SavedTokens ==
    {Token(1, None)} \cup {Token(1, Some(e)) : e \in 0..TokenLifetime}

\* PlayerSetVolume arguments in hundredths: 0.0, 0.01, .., 1.0
LibVolumes == 0..100

PlayerEvents ==
    {PlayerEvent("EndOfTrack", 0), PlayerEvent("Playing", 0),
     PlayerEvent("Playing", 5), PlayerEvent("TimeToPreloadNextTrack", 0),
     PlayerEvent("Paused", 5), PlayerEvent("Stopped", 0)}

LibEvents == UNION {[1..n -> PlayerEvents] : n \in 0..MaxEvents}

\* values as they appear in a query
RawValues == {<<"a">>, <<"b">>, <<"a", "+">>}

Params == {Param(k, v) : k \in {"state", "code", "scope"}, v \in RawValues}

Queries == UNION {[1..n -> Params] : n \in 0..MaxParams}

RequestLines ==
    {<<Word("GET", None)>>, <<Word("GET", None), Word("/login", None)>>}
    \cup {<<Word("GET", None), Word("/login", Some(q)),
            Word("HTTP/1.1", None)>> : q \in Queries}

Host(name, addrs) == [name |-> name, addrs |-> addrs]

Hosts ==
    {Host("127.0.0.1", <<IpV4(127, 0, 0, 1)>>),
     Host("127.8.8.8", <<IpV4(127, 8, 8, 8)>>),
     Host("56.0.0.1", <<IpV4(56, 0, 0, 1)>>),
     Host("[::1]", <<IpV6(<<0, 0, 0, 0, 0, 0, 0, 1>>)>>),
     Host("[0:0:0:0:0:0:0:1]", <<IpV6(<<0, 0, 0, 0, 0, 0, 0, 1>>)>>),
     Host("[3ffe:2a00:100:7031::1]",
          <<IpV6(<<16382, 10752, 256, 28721, 0, 0, 0, 1>>)>>),
     Host("localhost",
          <<IpV6(<<0, 0, 0, 0, 0, 0, 0, 1>>), IpV4(127, 0, 0, 1)>>),
     Host("multi.example", <<IpV4(127, 0, 0, 1), IpV4(56, 0, 0, 1)>>),
     Host("unknown.example", <<>>)}

Urls ==
    [parses : BOOLEAN, scheme : {"http", "https"}, host : Hosts,
     port : {None, Some(80), Some(1234), Some(8888)}]

\* CsrfToken::new_random: the secret of this login
CsrfTokens == {<<"a">>, <<"b">>}

\* an empty token cache and secret store
EmptyStore == [storage |-> None, keyring |-> None, issued |-> 1]

\* the token endpoint answers as `exchange` says, the secret store works
ExchangeIO(exchange) ==
    [retrieve |-> TRUE, save |-> TRUE, logout |-> "open",
     exchange |-> exchange, connect |-> TRUE]

LibInputs ==
    [fn : {"create_session"}, ap_port : {None, Some(4070)},
     stub : [1..Len(KNOWN_AP_PORTS) -> StubResults]]
    \cup [fn : {"create_session_connects"}, ap_port : {None, Some(4070)},
          connects : Connects]
    \cup [fn : {"get_valid_token"}, ts : LibStores, io : LibIO, t : LibTimes]
    \cup [fn : {"refresh_token"}, ts : LibStores, old : LibTokens,
          io : LibIO, t : LibTimes]
    \cup [fn : {"TokenStore_set"}, ts : LibStores, c : NewTokens, io : LibIO]
    \cup [fn : {"TokenStore_clear"}, ts : LibStores, io : LibIO]
    \cup [fn : {"TokenStore_get"}, ts : LibStores, io : LibIO]
    \cup [fn : {"clear_then_get"}, ts : LibStores, io : LibIO]
    \cup [fn : {"token_expired"}, c : LibTokens, t : LibTimes]
    \cup [fn : {"save_then_retrieve"},
          kr : {None, Some(to_vec(Token(0, Some(0))))},
          c : SavedTokens, saved : BOOLEAN, avail : BOOLEAN]
    \cup [fn : {"sleep_for"}, c : LibTokens, t : LibTimes]
    \cup [fn : {"set_volume"}, m : {None, Some(MAX_VOLUME)},
          v : LibVolumes]
    \cup [fn : {"player_setup_delegate"}, events : LibEvents]
    \cup [fn : {"parse_query"}, request_line : RequestLines]
    \cup [fn : {"get_socket_address"}, url : Urls]
    \cup [fn : {"get_token"}, csrf_token : CsrfTokens,
          request_line : RequestLines, exchange : {"ok", "fail"}]

LibInit ==
    /\ ProgInit
    /\ input \in LibInputs
    /\ output = None
    /\ tasks = NoTasks

Apply(f, result) ==
    /\ input.fn = f
    /\ output = None
    /\ output' = Some(result)
    /\ UNCHANGED <<input, tasks, progVars>>

ApplyCreateSession ==
    /\ input.fn = "create_session"
    /\ Apply("create_session",
             create_session(input.ap_port,
                            Stubbed(input.ap_port, input.stub)))

\* create_session over the real create_session_with_port
ApplyCreateSessionConnects ==
    /\ input.fn = "create_session_connects"
    /\ Apply("create_session_connects",
             create_session(input.ap_port,
                            Attempts(input.ap_port, input.connects)))

ApplyGetValidToken ==
    /\ input.fn = "get_valid_token"
    /\ Apply("get_valid_token", get_valid_token(input.ts, input.io, input.t))

ApplyRefreshToken ==
    /\ input.fn = "refresh_token"
    /\ Apply("refresh_token",
             refresh_token(input.ts, input.old, input.io, input.t))

ApplyTokenStoreSet ==
    /\ input.fn = "TokenStore_set"
    /\ Apply("TokenStore_set", TokenStore_set(input.ts, input.c, input.io))

ApplyTokenStoreClear ==
    /\ input.fn = "TokenStore_clear"
    /\ Apply("TokenStore_clear", TokenStore_clear(input.ts, input.io))

ApplyTokenStoreGet ==
    /\ input.fn = "TokenStore_get"
    /\ Apply("TokenStore_get", TokenStore_get(input.ts, input.io))

ApplyClearThenGet ==
    /\ input.fn = "clear_then_get"
    /\ Apply("clear_then_get", clear_then_get(input.ts, input.io))

ApplyTokenExpired ==
    /\ input.fn = "token_expired"
    /\ Apply("token_expired", token_expired(input.c, input.t))

ApplySaveThenRetrieve ==
    /\ input.fn = "save_then_retrieve"
    /\ Apply("save_then_retrieve",
             save_then_retrieve(input.kr, input.c, input.saved, input.avail))

ApplySleepFor ==
    /\ input.fn = "sleep_for"
    /\ Apply("sleep_for", sleep_for(input.c, input.t))

ApplySetVolume ==
    /\ input.fn = "set_volume"
    /\ Apply("set_volume", set_volume(input.m, input.v))

ApplyPlayerSetupDelegate ==
    /\ input.fn = "player_setup_delegate"
    /\ Apply("player_setup_delegate", player_setup_delegate(input.events))

ApplyParseQuery ==
    /\ input.fn = "parse_query"
    /\ Apply("parse_query", parse_query(input.request_line))

ApplyGetToken ==
    /\ input.fn = "get_token"
    /\ Apply("get_token",
             get_token(EmptyStore, input.csrf_token, input.request_line,
                       ExchangeIO(input.exchange), 0))

ApplyGetSocketAddress ==
    /\ input.fn = "get_socket_address"
    /\ Apply("get_socket_address", get_socket_address(input.url))

LibNext ==
    \/ ApplyCreateSession
    \/ ApplyCreateSessionConnects
    \/ ApplyGetValidToken
    \/ ApplyRefreshToken
    \/ ApplyTokenStoreSet
    \/ ApplyTokenStoreClear
    \/ ApplyTokenStoreGet
    \/ ApplyClearThenGet
    \/ ApplyTokenExpired
    \/ ApplySaveThenRetrieve
    \/ ApplySleepFor
    \/ ApplySetVolume
    \/ ApplyPlayerSetupDelegate
    \/ ApplyParseQuery
    \/ ApplyGetToken
    \/ ApplyGetSocketAddress

LibSpec == LibInit /\ [][LibNext]_vars

\* function f has been applied
Applied(f) == input.fn = f /\ output # None



\* ------------------------------------------- the token cache, shared
\* Two tasks of the single-threaded context hold the TokenStore: one calls
\* get (a handler in get_valid_token), the other set and clear (a refresh
\* task in refresh_token). A task runs until it awaits I/O. No lock guard
\* of `storage` lives across an await (each is a temporary of one
\* statement), so every locked access is one step; the steps of a call
\* are separated by the secret-store request it awaits.
CacheTokens == {Token(n, Some(TokenLifetime)) : n \in 1..MaxTokens}

CacheFrame ==
    UNCHANGED <<queue, enqueued, cur, pc, pending, started, finished, done,
                calls, ops, load_refused, actorVars, worldVars, issued, now,
                input, output>>

\* `self.storage.write().await.replace(token.clone())` of get
get_write(st, val) == val

\* get: `let local = self.storage.read().await.clone()` and the return
\* of a cached value, or the start of Credentials::retrieve
GetRead ==
    /\ tasks.get.pc = "idle"
    /\ tasks.get.calls < MaxCalls
    /\ tasks' = [tasks EXCEPT
                    !.get = [pc |-> IF storage # None THEN "idle"
                                    ELSE "retrieve",
                             val |-> None, overlapped |-> FALSE,
                             calls |-> @.calls + 1]]
    /\ UNCHANGED <<storage, keyring>>
    /\ CacheFrame

\* get: the secret store answers the request of Credentials::retrieve
GetRetrieved ==
    /\ tasks.get.pc = "retrieve"
    /\ \E avail \in BOOLEAN :
        LET r == retrieve(keyring, avail)
        IN  tasks' = [tasks EXCEPT
                        !.get.pc = IF r # None THEN "write" ELSE "idle",
                        !.get.val = r]
    /\ UNCHANGED <<storage, keyring>>
    /\ CacheFrame

\* get: the task is polled with the answer and stores it
GetWrite ==
    /\ tasks.get.pc = "write"
    /\ storage' = get_write(storage, tasks.get.val)
    /\ tasks' = [tasks EXCEPT !.get.pc = "idle"]
    /\ UNCHANGED keyring
    /\ CacheFrame

\* set(creds): creds.save() is served by the secret store
SetSaved ==
    /\ tasks.wr.pc = "idle"
    /\ tasks.wr.calls < MaxCalls
    /\ \E c \in CacheTokens, saved \in BOOLEAN :
        /\ keyring' = save(keyring, c, saved)
        /\ tasks' = [tasks EXCEPT
                        !.wr = [pc |-> "set", arg |-> Some(c),
                                calls |-> @.calls + 1]]
    /\ UNCHANGED storage
    /\ CacheFrame

\* a set or clear of the writing task has completed while a get was in
\* flight
Completed(t) ==
    [t EXCEPT !.wr.pc = "idle",
              !.get.overlapped = @ \/ t.get.pc # "idle"]

\* set: `self.storage.write().await.replace(creds)`
SetWrite ==
    /\ tasks.wr.pc = "set"
    /\ storage' = tasks.wr.arg
    /\ tasks' = Completed(tasks)
    /\ UNCHANGED keyring
    /\ CacheFrame

\* clear(): Credentials::logout() is served by the secret store
ClearLoggedOut ==
    /\ tasks.wr.pc = "idle"
    /\ tasks.wr.calls < MaxCalls
    /\ \E mode \in {"open", "locked", "unavailable"} :
        /\ keyring' = logout(keyring, mode)
        /\ tasks' = [tasks EXCEPT
                        !.wr = [pc |-> "clear", arg |-> None,
                                calls |-> @.calls + 1]]
    /\ UNCHANGED storage
    /\ CacheFrame

\* clear: `self.storage.write().await.take()`
ClearWrite ==
    /\ tasks.wr.pc = "clear"
    /\ storage' = None
    /\ tasks' = Completed(tasks)
    /\ UNCHANGED keyring
    /\ CacheFrame

CacheNext ==
    \/ GetRead
    \/ GetRetrieved
    \/ GetWrite
    \/ SetSaved
    \/ SetWrite
    \/ ClearLoggedOut
    \/ ClearWrite

CacheSpec == Init /\ [][CacheNext]_vars

\* ================================================================ claims
ReportCount(cs) ==
    Cardinality({i \in 1..Len(cs) : cs[i].call = "report_error"})

\* a handler returns in this step
Returns == finished' # finished

\* a handler starts in this step
Starts == started' # started

TransportCommands ==
    {"PlayerLoad", "PlayerPreload", "PlayerResume", "PlayerPause",
     "PlayerStop", "PlayerSeek"}

LoginCommands == {"Restore", "CompleteLogin"}

\* ----------------------------------------------------------------- C1
C1_ReturnStep ==
    Returns =>
        /\ ReportCount(calls') = (IF done'.result = "Ok" THEN 0 ELSE 1)
        /\ done'.result # "Ok" =>
               \E i \in 1..Len(calls') :
                   calls'[i] = Call("report_error", done'.result, 0)
        /\ pc' = "idle"
        /\ cur' = None
        /\ queue' = IF Starts THEN Tail(queue) ELSE queue

\* Commands are numbered in the order they are sent and finished is the
\* number of the last one handled, so finished = enqueued says that every
\* command sent so far has been handled.
C1_AllHandled == (finished # enqueued) ~> (finished = enqueued)

\* C1: when a handler returns an error, report_error is called exactly once
\* with that error (and never for a handler that returns Ok), the actor is
\* back at the top of its loop with the rest of the queue untouched, and
\* every command sent is eventually taken from the queue and handled,
\* whatever the commands before it returned.
C1_FailureReportedOnceActorContinues ==
    [][C1_ReturnStep]_vars /\ C1_AllHandled

\* C1 witness: the first command failed and was reported, and a command
\* sent after it has been handled.
C1_Witness ==
    /\ load_refused
    /\ finished >= 2
    /\ done.result = "Ok"

\* ----------------------------------------------------------------- C2
C2_StartStep ==
    Starts =>
        /\ pc = "idle"
        /\ cur = None
        /\ finished = started
        /\ started' = started + 1

C2_InFlight ==
    pc # "idle" =>
        /\ cur # None
        /\ cur[1].id = started
        /\ finished = started - 1

\* C2: a handler starts only when no handler is in flight, and the
\* handlers start in the order the commands were sent: command k+1 starts
\* only after command k has returned, also while command k is suspended
\* on I/O.
C2_OneAtATimeInOrder == []C2_InFlight /\ [][C2_StartStep]_vars

\* C2 witness: a handler is suspended on I/O while the next command waits
\* in the queue.
C2_Witness ==
    /\ pc # "idle"
    /\ cur # None
    /\ queue # <<>>
    /\ Head(queue).id = started + 1

\* ----------------------------------------------------------------- C3
C3_LoadStep ==
    (Returns /\ done'.cmd.type = "PlayerLoad") =>
        /\ sessions = <<>> =>
               /\ done'.result = "PlayerNotReady"
               /\ pc' = "idle"
        /\ (done.cmd.type \in LoginCommands /\ done.result = "Ok") =>
               /\ done'.result = "Ok"
               /\ ops' = <<Op("PlayerLoad", player[1].id, done'.cmd)>>
               /\ ReportCount(calls') = 0

C4_PlayerIffSession == (player # None) <=> (session # None)

\* ----------------------------------------------------------------- C5
C5_ReloadStep ==
    (Returns /\ done'.cmd.type = "ReloadSettings" /\ session # None) =>
        /\ session' = session
        /\ player' # None
        /\ player' # player
        /\ player'[1].session = session[1]

\* C5: ReloadSettings handled while the actor holds a session builds a new
\* player on that session, and the actor still holds that session
\* afterwards.
C5_ReloadKeepsSession == [][C5_ReloadStep]_vars

\* ----------------------------------------------------------------- C6
C6_InitLoginStep ==
    (Returns /\ done'.cmd.type = "InitLogin") =>
        /\ done'.result = "Ok" =>
               /\ auth_challenge' # None
               /\ calls' = <<Call("login_challenge_started", "",
                                 auth_challenge'[1].auth_url)>>
        /\ auth_challenge # None =>
               /\ listeners' = listeners
               /\ auth_challenge' = auth_challenge
               /\ done'.result = "Ok"
               /\ ops' = <<>>

\* C6: every successful InitLogin notifies the delegate with the auth_url
\* of the challenge the actor then holds, and an InitLogin handled while a
\* challenge is pending starts no listener and keeps that challenge, so the
\* delegate gets the same auth_url as for the first InitLogin.
C6_OneChallengeAtATime == [][C6_InitLoginStep]_vars

\* C6 witness: an InitLogin returned Ok without starting a listener.
C6_Witness ==
    /\ done.cmd.type = "InitLogin"
    /\ done.result = "Ok"
    /\ ops = <<>>
    /\ listeners = 1
    /\ finished = done.id
    /\ pc = "idle"

\* ----------------------------------------------------------------- C7
C7_CompleteLoginStep ==
    (Returns /\ done'.cmd.type = "CompleteLogin") =>
        /\ auth_challenge' = None
        /\ (Starts /\ auth_challenge = None) => done'.result = "LoginFailed"

\* C7: when the CompleteLogin handler returns, with Ok or with an error, no
\* challenge is pending; handled with no pending challenge it returns
\* LoginFailed.
C7_CompleteLoginClearsChallenge == [][C7_CompleteLoginStep]_vars

\* C7 witness: a CompleteLogin whose code exchange was made has failed.
C7_Witness ==
    /\ done.cmd.type = "CompleteLogin"
    /\ done.result = "LoginFailed"
    /\ ops # <<>>
    /\ listeners = 1

\* ----------------------------------------------------------------- C8
C8_LogoutStep ==
    (Returns /\ done'.cmd.type = "Logout") =>
        IF session # None
        THEN /\ sessions'[session[1]].status = "shutdown"
             /\ session' = None
             /\ player' = None
             /\ done'.result = "Ok"
        ELSE done'.result = "PlayerNotReady"

\* C8: Logout handled while the actor holds a session shuts that session
\* down and leaves the actor with neither session nor player; handled with
\* no session it returns PlayerNotReady.
C8_Logout == [][C8_LogoutStep]_vars

\* C8 witness: a Logout has shut a session down.
C8_Witness ==
    /\ done.cmd.type = "Logout"
    /\ done.result = "Ok"
    /\ \E sid \in 1..Len(sessions) : sessions[sid].status = "shutdown"
    /\ finished = done.id

\* ----------------------------------------------------------------- C9
C9_TransportStep ==
    (Returns /\ done'.cmd.type \in TransportCommands) =>
        IF player = None
        THEN /\ done'.result = "PlayerNotReady"
             /\ ops' = <<>>
        ELSE /\ done'.result = "Ok"
             /\ ops' = <<Op(done'.cmd.type, player[1].id, done'.cmd)>>
             /\ ReportCount(calls') = 0

\* C9: a transport command handled while the actor holds no player returns
\* PlayerNotReady and makes no player operation; handled while a player
\* exists it makes its operation on that player and returns Ok.
C9_Transport == [][C9_TransportStep]_vars

\* C9 witness: a seek was applied to the player.
C9_Witness ==
    /\ done.cmd.type = "PlayerSeek"
    /\ done.result = "Ok"
    /\ ops = <<Op("PlayerSeek", player[1].id, done.cmd)>>

\* ---------------------------------------------------------------- C10
\* a Session lives while some clone of it is held; the refresh task of a
\* session holds one and never ends
Held(sid) ==
    \/ session = Some(sid)
    \/ (player # None /\ player[1].session = sid)
    \/ sid <= Len(loops)

Live(sid) == sessions[sid].status = "connected" /\ Held(sid)

\* C10: at most one session is live (connected and not shut down) at any
\* time.
C10_AtMostOneLiveSession ==
    Cardinality({sid \in 1..Len(sessions) : Live(sid)}) <= 1

\* ---------------------------------------------------------------- C11
\* the probe of create_session under a stubbed per-port step
Probed == Applied("create_session") /\ input.ap_port = None

\* the first j-1 calls of the stub returned TechnicalError
RetriedUpTo(j) == \A k \in 1..(j - 1) : input.stub[k] = "TechnicalError"

\* C11: with no configured port the ports attempted are a prefix of
\* [default, 80, 443, 4070], every attempt but the last returned
\* TechnicalError, and when the attempt on a port connects the probe ends
\* there with the session of that port.
C11_ProbeInOrder ==
    Probed =>
        LET r == output[1]
            n == Len(r.tried)
        IN  /\ n \in 1..4
            /\ r.tried = SubSeq(<<None, Some(80), Some(443), Some(4070)>>,
                                1, n)
            /\ RetriedUpTo(n)
            /\ \A j \in 1..4 :
                   (input.stub[j] = "Ok" /\ RetriedUpTo(j)) =>
                       /\ r.res = "Ok"
                       /\ n = j
                       /\ r.port = r.tried[j]
            /\ r.res = "Ok" => (input.stub[n] = "Ok" /\ r.port = r.tried[n])

\* C11 witness: the default port returned TechnicalError and port 80
\* connected.
C11_Witness ==
    /\ Probed
    /\ input.stub[1] = "TechnicalError"
    /\ input.stub[2] = "Ok"
    /\ output[1].res = "Ok"
    /\ output[1].port = Some(80)
    /\ output[1].tried = <<None, Some(80)>>

\* ---------------------------------------------------------------- C12
\* C12: when the attempt on some port returns an error other than
\* TechnicalError, no later port is attempted and create_session returns
\* that error.
C12_FailFast ==
    Probed =>
        \A j \in 1..4 :
            (input.stub[j] \notin {"Ok", "TechnicalError"} /\ RetriedUpTo(j))
                => /\ output[1].res = input.stub[j]
                   /\ Len(output[1].tried) = j

\* C12 witness: port 80 returned LoginFailed although port 443 would have
\* connected.
C12_Witness ==
    /\ Probed
    /\ input.stub = <<"TechnicalError", "LoginFailed", "Ok", "Ok">>
    /\ output[1].res = "LoginFailed"
    /\ output[1].tried = <<None, Some(80)>>

\* ---------------------------------------------------------------- C13
\* the stub returns TechnicalError twice and then succeeds
ThirdSucceeds ==
    /\ Probed
    /\ input.stub[1] = "TechnicalError"
    /\ input.stub[2] = "TechnicalError"
    /\ input.stub[3] = "Ok"

\* C13 as stated: when the stub returns TechnicalError for the first two
\* attempts and succeeds on the third, the session is established on port
\* 4070 and that attempt is the last one.
C13_SessionOn4070 ==
    ThirdSucceeds =>
        /\ output[1].res = "Ok"
        /\ output[1].port = Some(4070)
        /\ output[1].tried[Len(output[1].tried)] = Some(4070)

\* C13 amended: when the stub returns TechnicalError for the first two
\* attempts and succeeds on the third, the session is established on the
\* third port of the list, 443, and port 4070 is not tried.
C13_SessionOn443 ==
    ThirdSucceeds =>
        /\ output[1].res = "Ok"
        /\ output[1].port = Some(443)
        /\ output[1].tried = <<None, Some(80), Some(443)>>

\* C13 witness: the third attempt succeeded after two TechnicalErrors.
C13_Witness ==
    /\ ThirdSucceeds
    /\ output[1].res = "Ok"
    /\ Len(output[1].tried) = 3

\* ---------------------------------------------------------------- C14
\* the token get_valid_token finds: the cached one, else the one the
\* secret store returns
StoredToken(ts, io) ==
    IF ts.storage # None THEN ts.storage
    ELSE IF io.retrieve /\ ts.keyring # <<>>
         THEN Some(from_slice(ts.keyring[1]))
         ELSE None

\* C14: get_valid_token makes no request to the token endpoint and returns
\* the stored token as it is when that token's expiry is strictly after the
\* current time; it makes exactly one request when the stored token is
\* expired; with no stored token it returns LoggedOut and makes no request.
C14_RefreshOnlyWhenExpired ==
    Applied("get_valid_token") =>
        LET st == StoredToken(input.ts, input.io)
            r == output[1]
        IN  /\ st = None => (r.res = "LoggedOut" /\ r.exchanges = 0)
            /\ (st # None /\ st[1].token_expiry_time # None
                 /\ st[1].token_expiry_time[1] > input.t) =>
                   /\ r.res = "Ok"
                   /\ r.val = st
                   /\ r.exchanges = 0
            /\ (st # None /\ (st[1].token_expiry_time = None
                              \/ input.t > st[1].token_expiry_time[1])) =>
                   r.exchanges = 1

\* C14 witness: the cached token was expired and was refreshed.
C14_Witness ==
    /\ Applied("get_valid_token")
    /\ input.ts.storage = Some(Token(0, Some(0)))
    /\ input.t = 1
    /\ output[1].res = "Ok"
    /\ output[1].exchanges = 1
    /\ output[1].val # input.ts.storage

\* ---------------------------------------------------------------- C15
\* C15: when refresh_token fails it returns NoRefreshToken and the cache is
\* empty afterwards; when it succeeds the cache holds the token it returns.
C15_RefreshFailureClearsCache ==
    Applied("refresh_token") =>
        LET r == output[1]
        IN  /\ r.res # "Ok" =>
                   /\ r.res = "NoRefreshToken"
                   /\ TokenStore_get_cached(r.ts) = None
            /\ r.res = "Ok" =>
                   /\ r.val # None
                   /\ TokenStore_get_cached(r.ts) = r.val

\* ---------------------------------------------------------------- C17
\* C17: after set(c) the cache holds c whether or not the save succeeded,
\* and after clear() the cache is empty whether or not the logout
\* succeeded.
C17_CacheFollowsSetAndClear ==
    /\ Applied("TokenStore_set") =>
           TokenStore_get_cached(output[1]) = Some(input.c)
    /\ Applied("TokenStore_clear") =>
           TokenStore_get_cached(output[1]) = None

\* C17 witness: the save failed, the secret store is as before and the
\* cache holds the new token.
C17_Witness ==
    /\ Applied("TokenStore_set")
    /\ ~input.io.save
    /\ output[1].keyring = input.ts.keyring
    /\ output[1].keyring # Some(to_vec(input.c))
    /\ output[1].storage = Some(input.c)

\* ---------------------------------------------------------------- C18
\* C18: get() returns a cached value without calling retrieve(); with an
\* empty cache it calls retrieve() once, and either caches and returns the
\* record retrieved or, when retrieve() fails, returns None and leaves the
\* cache empty.
C18_GetFallsBackToSecretStore ==
    Applied("TokenStore_get") =>
        LET ts == input.ts
            r == output[1]
            found == input.io.retrieve /\ ts.keyring # None
        IN  /\ ts.storage # None =>
                   /\ r.val = ts.storage
                   /\ r.retrieves = 0
                   /\ r.ts = ts
            /\ (ts.storage = None /\ found) =>
                   /\ r.val = Some(from_slice(ts.keyring[1]))
                   /\ r.retrieves = 1
                   /\ TokenStore_get_cached(r.ts) = r.val
            /\ (ts.storage = None /\ ~found) =>
                   /\ r.val = None
                   /\ TokenStore_get_cached(r.ts) = None
            /\ r.ts.keyring = ts.keyring

\* C18 witness: the cache was empty and the secret store, which holds a
\* record, could not be reached.
C18_Witness ==
    /\ Applied("TokenStore_get")
    /\ input.ts.storage = None
    /\ input.ts.keyring # None
    /\ ~input.io.retrieve
    /\ output[1].val = None
    /\ output[1].ts.storage = None

\* ---------------------------------------------------------------- C16
\* the Restore handler gets the result of get_valid_token in this step
RestoreTokenStep == pc = "restore_token" /\ pc' # "restore_token"

\* the record the token cache would find without asking the secret store,
\* else the record the secret store holds
Stored ==
    IF storage # None THEN storage
    ELSE IF keyring # <<>> THEN Some(from_slice(keyring[1]))
    ELSE None

C16_RestoreStep ==
    RestoreTokenStep =>
        /\ Stored = None => (Returns /\ done'.result = "LoggedOut")
        /\ (Returns /\ done'.result = "LoggedOut") =>
               /\ storage = None
               /\ storage' = None
               /\ issued' = issued
        /\ (Returns /\ done'.result # "LoggedOut") =>
               /\ done'.result = "LoginFailed"
               /\ Stored # None
               /\ token_expired(Stored[1], now)
               /\ issued' = issued
        /\ ~Returns =>
               /\ pc' = "create_session"
               /\ pending' # None
               /\ ~token_expired(pending'[1], now)
               /\ storage' = pending'
        /\ (storage # None /\ ~token_expired(storage[1], now)) =>
               /\ pc' = "create_session"
               /\ pending' = storage
               /\ issued' = issued

\* C16: when the Restore handler has the result of get_valid_token, it
\* returns LoggedOut if neither the cache nor the secret store gave a
\* token, returns LoginFailed if the stored token was expired and no new
\* token was issued for it, and otherwise goes on to initial_login with a
\* token that is not expired and is the cached one.
C16_RestoreOutcomes == [][C16_RestoreStep]_vars

\* C16 witness: a Restore found an expired token whose refresh failed.
C16_Witness ==
    /\ done.cmd.type = "Restore"
    /\ done.result = "LoginFailed"
    /\ ops = <<Op("get_valid_token", 0, done.cmd)>>
    /\ issued = 0
    /\ now = 1

\* ---------------------------------------------------------------- C19
C19_InitLoginStep ==
    (Returns /\ done'.cmd.type = "InitLogin" /\ auth_challenge = None) =>
        /\ Len(ops') = 1
        /\ ops'[1].op = "spawn_authcode_listener"
        /\ IF done'.result = "Ok"
           THEN /\ listeners' = listeners + 1
                /\ auth_challenge' = Some(AuthcodeChallenge(listeners'))
                /\ calls' = <<Call("login_challenge_started", "",
                                  auth_challenge'[1].auth_url)>>
           ELSE /\ done'.result = "LoginFailed"
                /\ auth_challenge' = None
                /\ listeners' = listeners
                /\ calls' = <<Call("report_error", "LoginFailed", 0)>>

\* C19: an InitLogin handled with no pending challenge tries to start a
\* listener; if that succeeds the new challenge is stored and
\* login_challenge_started is called with its URL, and if it fails the
\* handler returns LoginFailed, no challenge is stored and the only
\* delegate call is the error report.
C19_InitLoginStartsListener == [][C19_InitLoginStep]_vars

\* C19 witness: the listener could not be started.
C19_Witness ==
    /\ done.cmd.type = "InitLogin"
    /\ done.result = "LoginFailed"
    /\ auth_challenge = None
    /\ ops = <<Op("spawn_authcode_listener", 0, done.cmd)>>
    /\ calls = <<Call("report_error", "LoginFailed", 0)>>

\* ---------------------------------------------------------------- C20
C20_SetVolumeStep ==
    (Returns /\ done'.cmd.type = "PlayerSetVolume") =>
        /\ done'.result = "Ok"
        /\ mixer' = Some(scaled_volume(done'.cmd.value))

\* C20: PlayerSetVolume(v) always returns Ok and leaves a mixer whose
\* volume is v scaled to the device range, also when no mixer existed
\* before.
C20_SetVolumeCreatesMixer == [][C20_SetVolumeStep]_vars

\* ---------------------------------------------------------------- C21
\* C21: token_expired is true for a record without expiry time and
\* otherwise says whether the current time is after the expiry time; at
\* the expiry time itself the token is not expired.
C21_TokenExpired ==
    Applied("token_expired") =>
        LET e == input.c.token_expiry_time
        IN  /\ e = None => output[1] = TRUE
            /\ e # None => output[1] = (input.t > e[1])
            /\ e = Some(input.t) => output[1] = FALSE

\* C21 witness: the expiry time is the current time.
C21_Witness ==
    /\ Applied("token_expired")
    /\ input.c.token_expiry_time = Some(input.t)
    /\ output[1] = FALSE

\* ---------------------------------------------------------------- C22
\* C22: after a save(c) that succeeded, the secret store holds one
\* matching item, and a retrieve() that succeeds returns a record equal to
\* c, also when an item had been saved before.
C22_SaveRetrieveRoundTrip ==
    (Applied("save_then_retrieve") /\ input.saved) =>
        /\ Len(output[1].keyring) = 1
        /\ output[1].val # None => output[1].val = Some(input.c)
        /\ input.avail => output[1].val = Some(input.c)

\* C22 witness: a record with an expiry time was saved over an earlier
\* one and read back.
C22_Witness ==
    /\ Applied("save_then_retrieve")
    /\ input.kr # None
    /\ input.saved
    /\ input.c.token_expiry_time # None
    /\ output[1].val = Some(input.c)

\* ---------------------------------------------------------------- C23
\* C23: for every cached token the wait before the refresh is
\* max(0, expiry - now - 10 s), and 0 when the expiry is past or absent.
C23_WaitsUntilTenSecondsBeforeExpiry ==
    Applied("sleep_for") =>
        LET e == input.c.token_expiry_time
        IN  output[1] = IF e # None /\ e[1] - input.t - REFRESH_LEAD > 0
                        THEN e[1] - input.t - REFRESH_LEAD
                        ELSE 0

\* ---------------------------------------------------------------- C26
\* C26: when a mixer exists, PlayerSetVolume(v) with v between 0.0 and 1.0
\* sets its volume to the integer part of MAX_VOLUME * v, a u16; for
\* v = 0.5 that is MAX_VOLUME / 2 in integer arithmetic, 32767.
C26_VolumeScaling ==
    (Applied("set_volume") /\ input.m # None) =>
        /\ output[1] # None
        /\ output[1][1] \in 0..65535
        /\ 100 * output[1][1] <= MAX_VOLUME * input.v
        /\ MAX_VOLUME * input.v < 100 * (output[1][1] + 1)
        /\ input.v = 50 => output[1][1] = MAX_VOLUME \div 2

\* C26 witness: PlayerSetVolume(0.5) was applied to the mixer.
C26_Witness ==
    /\ Applied("set_volume")
    /\ input.m = Some(MAX_VOLUME)
    /\ input.v = 50
    /\ output[1] = Some(32767)

\* ---------------------------------------------------------------- C27
\* the event kinds the relay passes on
Relayed(e) == e.kind \in {"EndOfTrack", "Playing", "TimeToPreloadNextTrack"}

\* C27: the delegate calls made by the relay are, in the order of the
\* events, one end_of_track_reached for each EndOfTrack, one
\* notify_playback_state with the position for each Playing and one
\* preload_next_track for each TimeToPreloadNextTrack; other events give
\* no call.
C27_RelayMapsEvents ==
    Applied("player_setup_delegate") =>
        LET kept == SelectSeq(input.events, Relayed)
            out == output[1]
        IN  /\ Len(out) = Len(kept)
            /\ \A i \in 1..Len(kept) :
                   /\ kept[i].kind = "EndOfTrack" =>
                          out[i] = Call("end_of_track_reached", "", 0)
                   /\ kept[i].kind = "Playing" =>
                          out[i] = Call("notify_playback_state", "",
                                        kept[i].position_ms)
                   /\ kept[i].kind = "TimeToPreloadNextTrack" =>
                          out[i] = Call("preload_next_track", "", 0)

\* C27 witness: an ignored event was followed by a position event.
C27_Witness ==
    /\ Applied("player_setup_delegate")
    /\ input.events = <<PlayerEvent("Paused", 5), PlayerEvent("Playing", 5)>>
    /\ output[1] = <<Call("notify_playback_state", "", 5)>>

\* ---------------------------------------------------------------- C24
\* the values of the parameters named key in the query of the input's
\* request line, decoded
ValuesOf(key) ==
    IF Len(input.request_line) < 2 \/ input.request_line[2].query = None
    THEN {}
    ELSE LET q == input.request_line[2].query[1]
         IN  {form_urldecode(q[i].value) :
                  i \in {j \in 1..Len(q) : q[j].key = key}}

HasQuery ==
    /\ Len(input.request_line) >= 2
    /\ input.request_line[2].query # None

\* C24: for a request line with a query, parse_query fails with
\* CsrfTokenNotFound when no state parameter is present (whether or not a
\* code is), fails with AuthCodeNotFound when a state but no code is
\* present, and returns csrf_token = S and code = C when state=S and code=C
\* are the parameters present; get_token then fails with InvalidState,
\* without a request to the token endpoint, when S is not the CSRF token of
\* this login, and otherwise sends C to the token endpoint.
C24_CallbackParsing ==
    /\ (Applied("parse_query") /\ HasQuery) =>
           /\ ValuesOf("state") = {} => output[1].res = "CsrfTokenNotFound"
           /\ (ValuesOf("state") # {} /\ ValuesOf("code") = {}) =>
                  output[1].res = "AuthCodeNotFound"
           /\ \A S \in ValuesOf("state"), C \in ValuesOf("code") :
                  (ValuesOf("state") = {S} /\ ValuesOf("code") = {C}) =>
                      /\ output[1].res = "Ok"
                      /\ output[1].csrf_token = S
                      /\ output[1].code = C
    /\ (Applied("get_token") /\ HasQuery) =>
           /\ ValuesOf("state") = {} =>
                  (output[1].res = "CsrfTokenNotFound"
                   /\ output[1].exchanges = 0)
           /\ \A S \in ValuesOf("state"), C \in ValuesOf("code") :
                  (ValuesOf("state") = {S} /\ ValuesOf("code") = {C}) =>
                      IF S # input.csrf_token
                      THEN /\ output[1].res = "InvalidState"
                           /\ output[1].exchanges = 0
                      ELSE /\ output[1].exchanges = 1
                           /\ output[1].code = C

\* C24 witness: the callback carried a state and a code, and the state was
\* not the one generated for this login.
C24_Witness ==
    /\ Applied("get_token")
    /\ HasQuery
    /\ ValuesOf("state") = {<<"b">>}
    /\ ValuesOf("code") = {<<"a", " ">>}
    /\ input.csrf_token = <<"a">>
    /\ output[1].res = "InvalidState"
    /\ output[1].exchanges = 0

\* ---------------------------------------------------------------- C25
\* some address of the URI's host is a loopback address
ResolvesToLoopback(url) ==
    \E i \in 1..Len(url.host.addrs) :
        url.host.addrs[i] \in
            {IpV4(127, 0, 0, 1), IpV4(127, 8, 8, 8),
             IpV6(<<0, 0, 0, 0, 0, 0, 0, 1>>)}

\* C25: get_socket_address returns an address only for a URI that is
\* http, has a port written in it and whose host resolves to a loopback
\* address, and then the address is a loopback address of the host with
\* that port; for a URI that is not http, has no port or does not resolve
\* to a loopback address it returns nothing; the loopback IP literals with
\* a port other than the default are accepted.
C25_LoopbackHttpWithPort ==
    Applied("get_socket_address") =>
        LET url == input.url
        IN  /\ output[1] # None =>
                   /\ url.scheme = "http"
                   /\ url.port # None
                   /\ ResolvesToLoopback(url)
                   /\ output[1][1].port = url.port[1]
                   /\ \E i \in 1..Len(url.host.addrs) :
                          output[1][1].ip = url.host.addrs[i]
                   /\ output[1][1].ip \in
                          {IpV4(127, 0, 0, 1), IpV4(127, 8, 8, 8),
                           IpV6(<<0, 0, 0, 0, 0, 0, 0, 1>>)}
            /\ (url.scheme # "http" \/ url.port = None
                 \/ ~ResolvesToLoopback(url)) => output[1] = None
            /\ (url.parses /\ url.scheme = "http"
                 /\ url.port \in {Some(1234), Some(8888)}
                 /\ Len(url.host.addrs) = 1 /\ ResolvesToLoopback(url)) =>
                   output[1] = Some(SocketAddr(url.host.addrs[1],
                                               url.port[1]))

\* C25 witness: http://[::1]:8888/ gives the IPv6 loopback address with
\* port 8888.
C25_Witness ==
    /\ Applied("get_socket_address")
    /\ input.url.host.name = "[::1]"
    /\ input.url.port = Some(8888)
    /\ output[1] = Some(SocketAddr(IpV6(<<0, 0, 0, 0, 0, 0, 0, 1>>), 8888))

\* ---------------------------------------------------------------- C28
\* the session of refresh task sid has been logged out, or the actor has
\* replaced it by the session of a later login
Stale(sid) ==
    \/ sessions[sid].status = "shutdown"
    \/ (session # None /\ session[1] # sid)

C28_LoopStep ==
    \A sid \in 1..Len(loops) :
        (Stale(sid) /\ loops[sid].pc = "sleeping"
          /\ loops'[sid] # loops[sid]) => loops'[sid].pc = "ended"

\* C28: a refresh task whose session has been logged out or replaced does
\* not go on to another iteration when its wait is over: it ends.
C28_LoopEndsWithSession == [][C28_LoopStep]_vars

\* ---------------------------------------------------------------- C29
C29_RefreshStep ==
    (Returns /\ done'.cmd.type = "RefreshToken") =>
        IF session = None
        THEN /\ done'.result = "PlayerNotReady"
             /\ ops' = <<>>
             /\ UNCHANGED <<tokenVars, actorVars>>
        ELSE /\ session' = session
             /\ player' = player
             /\ done'.result \in {"Ok", "LoginFailed"}
             /\ ops'[1] = Op("get_valid_token", 0, done'.cmd)
             /\ done'.result = "Ok" =>
                    /\ calls' = <<Call("refresh_successful", "", 0)>>
                    /\ ops' = <<Op("get_valid_token", 0, done'.cmd),
                                Op("connect", session[1], done'.cmd)>>
                    /\ sessions'[session[1]].token = pending[1].access_token
             /\ done'.result = "LoginFailed" =>
                    calls' = <<Call("report_error", "LoginFailed", 0)>>

\* C29: a RefreshToken handled while the actor holds a session asks for a
\* valid token and, having got one, reconnects that session with it; on
\* success the only delegate call is one refresh_successful, on failure
\* of either step the only delegate call is the report of LoginFailed, and
\* either way the actor holds the same session and player as before;
\* handled with no session it returns PlayerNotReady and neither asks for
\* a token nor changes anything.
C29_RefreshToken == [][C29_RefreshStep]_vars

\* C29 witness: a RefreshToken reconnected the session.
C29_Witness ==
    /\ done.cmd.type = "RefreshToken"
    /\ done.result = "Ok"
    /\ calls = <<Call("refresh_successful", "", 0)>>
    /\ session # None
    /\ sessions[session[1]].status = "connected"

\* ---------------------------------------------------------------- C30
C30_MixerStep ==
    /\ mixer # None => mixer' # None
    /\ (mixer = None /\ mixer' # None) => mixer' = Some(MAX_VOLUME)
    /\ (mixer # None /\ mixer' # mixer) =>
            /\ Returns
            /\ done'.cmd.type = "PlayerSetVolume"
            /\ mixer' = Some(scaled_volume(done'.cmd.value))

\* C30: once the actor has a mixer it has one ever after; the mixer starts
\* at maximum volume; and its volume changes only when a PlayerSetVolume
\* is handled, to the volume of that command: neither a player rebuild
\* nor a Logout nor another login resets or drops it.
C30_MixerCreatedOnce == [][C30_MixerStep]_vars

\* a command of type t has just returned Ok as the third command of the
\* run, and the mixer has the volume an earlier PlayerSetVolume gave it
VolumeKeptAfter(t) ==
    /\ done.id = 3
    /\ done.cmd.type = t
    /\ done.result = "Ok"
    /\ \E v \in Volumes : /\ scaled_volume(v) # MAX_VOLUME
                          /\ mixer = Some(scaled_volume(v))

C30_AfterRebuild == VolumeKeptAfter("ReloadSettings")
C30_AfterLogout == VolumeKeptAfter("Logout")

\* C30 witness: a second login built a new player and the mixer still has
\* the volume set between the two logins.
C30_Witness == VolumeKeptAfter("Restore") /\ players = 2

\* ---------------------------------------------------------------- C31
C31_InstallStep ==
    (player' # player /\ player' # None) =>
        /\ Returns
        /\ done'.cmd.type \in LoginCommands \cup {"ReloadSettings"}
        /\ players' = players + 1
        /\ player'[1].id = players'
        /\ player'[1].id \notin relays
        /\ relays' = relays_without(player) \cup {player'[1].id}

C31_RelayAttached ==
    relays = IF player = None THEN {} ELSE {player[1].id}

\* C31: a player is installed only by a login or a ReloadSettings; it is a
\* newly built player, a relay is subscribed to it in the same step and
\* the relay of the player held before is gone with that player; so the
\* relays that exist are exactly the one of the player the actor holds.
C31_RelayFollowsPlayer == []C31_RelayAttached /\ [][C31_InstallStep]_vars

\* C31 witness: a second player has replaced the first and has the relay.
C31_Witness ==
    /\ players = 2
    /\ player # None
    /\ player[1].id = 2
    /\ relays = {2}

\* ---------------------------------------------------------------- C32
C32_LogoutStep ==
    (Returns /\ done'.cmd.type = "Logout") => player' = None

\* C32: when a Logout handler returns, whatever it returns and whatever
\* was handled before it, the actor holds no player (so that the transport
\* commands that follow report PlayerNotReady).
C32_NoPlayerAfterLogout == [][C32_LogoutStep]_vars

\* ---------------------------------------------------------------- C33
\* the handler of a login command runs in this step without returning Ok
FailingLoginStep ==
    \/ (cur' # None /\ cur'[1].cmd.type \in LoginCommands
          /\ (cur' # cur \/ pc' # pc))
    \/ (Returns /\ done'.cmd.type \in LoginCommands /\ done'.result # "Ok")

C33_FailedLoginStep ==
    (FailingLoginStep /\ session # None) =>
        /\ session' = session
        /\ player' = player
        /\ sessions' = sessions
        /\ players' = players
        /\ relays' = relays
        /\ \A i \in 1..Len(calls') :
               calls'[i].call # "token_login_successful"

\* C33: no step of a Restore or CompleteLogin handler that does not return
\* Ok changes the session or the player the actor holds, builds a player
\* or touches a session, and such a handler does not call
\* token_login_successful.
C33_FailedLoginKeepsSession == [][C33_FailedLoginStep]_vars

\* C33 witness: the actor is logged in and a second login has failed in
\* create_session.
C33_Witness ==
    /\ done.cmd.type \in LoginCommands
    /\ done.result # "Ok"
    /\ done.id = 2
    /\ session # None
    /\ player # None
    /\ ops # <<>>
    /\ ops[Len(ops)] = Op("create_session", 0, done.cmd)

\* ---------------------------------------------------------------- C34
C34_NotReadyStep ==
    (Returns /\ done'.result = "PlayerNotReady") =>
        /\ session' = session
        /\ player' = player
        /\ mixer' = mixer
        /\ auth_challenge' = auth_challenge
        /\ settings' = settings

\* C34: a handler that returns PlayerNotReady leaves the session, the
\* player, the mixer, the pending challenge and the settings snapshot of
\* the actor as they were.
C34_NotReadyChangesNothing == [][C34_NotReadyStep]_vars

\* ---------------------------------------------------------------- C35
\* token_login_successful is called in this step
Notifies ==
    /\ calls' # calls
    /\ \E i \in 1..Len(calls') : calls'[i].call = "token_login_successful"

C35_NotifyStep ==
    /\ Notifies =>
           /\ session' # None
           /\ player' # None
           /\ player'[1].session = session'[1]
           /\ sessions'[session'[1]].status = "connected"
    /\ (player # None /\ player' = None) =>
           /\ Returns
           /\ done'.cmd.type = "Logout"
    /\ (Returns /\ done'.cmd.type = "PlayerLoad"
          /\ done'.result = "PlayerNotReady") => player = None

\* C35: in the state in which token_login_successful has been called the
\* actor holds the new session and a player on it; the actor stops
\* holding a player only when a Logout returns; and a PlayerLoad reports
\* PlayerNotReady only when the actor holds no player. So a PlayerLoad
\* sent after the notification reports PlayerNotReady only if a Logout
\* was handled in between.
C35_NotifiedAfterInstall == [][C35_NotifyStep]_vars

\* C35 witness: the login was notified and the PlayerLoad that followed
\* was applied to the player of that login.
C35_Witness ==
    /\ done.cmd.type = "PlayerLoad"
    /\ done.result = "Ok"
    /\ done.id = 2
    /\ players = 1
    /\ session # None
    /\ ops = <<Op("PlayerLoad", 1, done.cmd)>>

\* ---------------------------------------------------------------- C36
C36_GetStep ==
    (tasks.get.pc # "idle" /\ tasks'.get.pc = "idle"
       /\ tasks.get.overlapped) => storage' = storage

\* C36: a get() during which a set(c) or a clear() has completed leaves
\* the cache as that set or clear left it.
C36_GetKeepsLaterWrite == [][C36_GetStep]_vars

\* ---------------------------------------------------------------- C37
\* refresh task sid is inside refresh_token(old), waiting for the token
\* endpoint
Exchanging(sid, old) ==
    loops[sid].pc = "exchanging" /\ loops[sid].old_token = old

C37_OnePerTask ==
    \A i, j \in 1..Len(loops) :
        (i # j /\ loops[i].pc = "exchanging" /\ loops[j].pc = "exchanging")
            => loops[i].old_token # loops[j].old_token

\* the handler suspended in get_valid_token finds the cached token
\* expired and has it exchanged
HandlerRefreshes ==
    /\ pc \in {"restore_token", "refresh_token"}
    /\ pc' # pc
    /\ storage # None
    /\ token_expired(storage[1], now)

C37_HandlerStep ==
    HandlerRefreshes =>
        \A sid \in 1..Len(loops) : ~Exchanging(sid, storage)

\* C37: no two refresh tasks are inside refresh_token with the same old
\* token at the same time, and a handler's get_valid_token does not have
\* a token exchanged that a refresh task is exchanging.
C37_OneExchangePerToken == []C37_OnePerTask /\ [][C37_HandlerStep]_vars

\* ---------------------------------------------------------------- C38
C38_LoopStep ==
    \A sid \in 1..Len(loops) :
        (loops'[sid] # loops[sid] /\ loops'[sid].pc = "start") =>
            /\ loops[sid].pc = "exchanging"
            /\ ~loops'[sid].spun

\* C38: an iteration of a refresh task ends only when the token endpoint
\* has answered the exchange it made after its sleep; no iteration ends
\* without the task having suspended.
C38_IterationWaits == [][C38_LoopStep]_vars

\* ---------------------------------------------------------------- C39
\* the connections of the first j attempts all failed
FailedUpTo(j) == \A k \in 1..j : ~input.connects[k]

\* C39: with no configured port and the real per-port step, when the
\* connections on the first j ports fail, port j+1 of [default, 80, 443,
\* 4070] is attempted.
C39_RetryOnConnectFailure ==
    (Applied("create_session_connects") /\ input.ap_port = None) =>
        \A j \in 1..(Len(KNOWN_AP_PORTS) - 1) :
            FailedUpTo(j) =>
                /\ Len(output[1].tried) > j
                /\ output[1].tried[j + 1] = KNOWN_AP_PORTS[j + 1]

\* ---------------------------------------------------------------- C40
\* C40: the get() that follows a completed clear(), with no set() in
\* between, returns nothing and leaves the cache empty.
C40_ClearedStaysCleared ==
    Applied("clear_then_get") =>
        /\ output[1].val = None
        /\ output[1].ts.storage = None

====
